---- MODULE Spec2Model ----
(***************************************************************************)
(* Model of src/server.js: the POST /api/ocr relay.  A request passes the  *)
(* multer intake (upload.single('file')), then the async route handler,    *)
(* which suspends once on `await axios.post(...)` and resumes when the     *)
(* outbound call settles.  Intake errors go to the error middleware.       *)
(* CORS is kept at its default configuration (allowedOrigins = '*'), so    *)
(* the cors middleware never raises; the error middleware's CORS branch is *)
(* still modelled.                                                         *)
(***************************************************************************)
EXTENDS Integers, Sequences, FiniteSets, TLC

\* ---------------------------------------------------------------- bounds
NumReqs == 2
NumStamps == 2

Reqs == 1..NumReqs
Timestamps == 1..NumStamps

\* ------------------------------------------------------ program constants
MAX_FILE_SIZE == 10485760
OCR_TIMEOUT == 30000
OCR_API_URL == "https://ocr-slip.onrender.com/parse-slip-image"

\* The user-facing `message` texts of the source are Thai sentences; each
\* is represented by an ASCII tag.
MsgNoFile == "msg:no-file"
MsgSuccess == "msg:success"
MsgTimeout == "msg:timeout"
MsgOcrApiError == "msg:ocr-api-error"
MsgNetwork == "msg:network"
MsgInternal == "msg:internal"
MsgTooLarge == "msg:file-too-large"
MsgUnexpected == "msg:unexpected"

\* ------------------------------------------------------------ input data
\* A MIME type is <<type, subtype>>, standing for the string "type/subtype".
File(field, name, mime, size, bytes) ==
    [present |-> TRUE, fieldname |-> field, originalname |-> name,
     mimetype |-> mime, size |-> size, buffer |-> bytes]

\* The multipart content of a request: at most one file part.
NoFile == [present |-> FALSE, fieldname |-> "", originalname |-> "",
           mimetype |-> <<"", "">>, size |-> 0, buffer |-> ""]
Uploads ==
    { NoFile,
      File("file", "slip.png", <<"image", "png">>, 1, "bytes-A"),
      File("file", "bill.jpg", <<"image", "jpeg">>, 2, "bytes-B"),
      File("file", "big.png", <<"image", "png">>, MAX_FILE_SIZE + 1, "bytes-A"),
      File("file", "note.txt", <<"text", "plain">>, 1, "bytes-A"),
      File("file", "big.txt", <<"text", "plain">>, MAX_FILE_SIZE + 1, "bytes-B"),
      File("other", "slip.png", <<"image", "png">>, 1, "bytes-A") }

\* Upstream response bodies as axios hands them over in response.data,
\* written as tagged JavaScript values.  "" is the empty string axios gives
\* for an absent body; "num:0" is the JSON body 0: present, but falsy in
\* JavaScript.
Bodies == {"obj:{amount:100}", "", "num:0"}
Statuses == {200, 201, 422, 500}
NetCodes == {"ENOTFOUND", "ECONNREFUSED"}

\* JavaScript truthiness of a body value (the left operand of `||`).
Truthy(v) == v \notin {"", "num:0"}

\* Mutant: a filter that lets every file through.
fileFilterAcceptAll(file) == TRUE

\* file.mimetype.startsWith('image/')
fileFilter(file) == file.mimetype[1] = "image"

\* -------------------------------------------------------- error objects
NoResponse == [status |-> 0, data |-> ""]
NoError == [name |-> "", code |-> "", message |-> "", response |-> NoResponse,
            request |-> FALSE]

MulterError(code) ==
    [name |-> "MulterError", code |-> code, message |-> "multer:" \o code,
     response |-> NoResponse, request |-> FALSE]

PlainError(msg) ==
    [name |-> "Error", code |-> "", message |-> msg, response |-> NoResponse,
     request |-> FALSE]

\* What the transport did with the one outbound call of a request.
NoOutcome == [kind |-> "none", status |-> 0, data |-> "", code |-> ""]
ResponseOutcomes == [kind : {"response"}, status : Statuses, data : Bodies, code : {""}]
TimeoutOutcome == [kind |-> "timeout", status |-> 0, data |-> "", code |-> "ECONNABORTED"]
NetOutcomes == [kind : {"neterr"}, status : {0}, data : {""}, code : NetCodes]
\* A socket error carrying the operating system's ECONNABORTED.
AbortOutcome == [kind |-> "abort", status |-> 0, data |-> "", code |-> "ECONNABORTED"]
\* The handler threw while building the multipart body: no call was made.
\* data holds the message of the thrown error.
LocalMessages == {"Cannot find module 'form-data'", "form-data failure"}
LocalOutcomes == [kind : {"local"}, status : {0}, data : LocalMessages, code : {""}]
Outcomes == ResponseOutcomes \cup NetOutcomes \cup {TimeoutOutcome, AbortOutcome}

StatusMessage(s) ==
    CASE s = 422 -> "Request failed with status code 422"
      [] s = 500 -> "Request failed with status code 500"
      [] OTHER -> "Request failed with status code"

\* Mutant: every upstream status resolves the call.
validateStatusAll(s) == TRUE

\* axios' default validateStatus.
validateStatus(s) == s >= 200 /\ s < 300

\* The error axios.post rejects with, for an outcome that is not a success.
AxiosError(o) ==
    CASE o.kind = "response" ->
           [name |-> "AxiosError", code |-> "ERR_BAD_REQUEST",
            message |-> StatusMessage(o.status),
            response |-> [status |-> o.status, data |-> o.data], request |-> TRUE]
      [] o.kind = "timeout" ->
           [name |-> "AxiosError", code |-> "ECONNABORTED",
            message |-> "timeout of 30000ms exceeded",
            response |-> NoResponse, request |-> TRUE]
      [] o.kind = "neterr" ->
           [name |-> "AxiosError", code |-> o.code, message |-> "net:" \o o.code,
            response |-> NoResponse, request |-> TRUE]
      [] o.kind = "abort" ->
           [name |-> "AxiosError", code |-> "ECONNABORTED",
            message |-> "write ECONNABORTED",
            response |-> NoResponse, request |-> TRUE]
      [] OTHER -> NoError

\* ------------------------------------------------------------ responses
\* A response is the HTTP status and the JSON body.
NoFileResponse ==
    [status |-> 400,
     body |-> [error |-> "No file uploaded", message |-> MsgNoFile]]

\* Mutant: the upstream payload is dropped from the success body.
SuccessResponseNoData(data, ts) ==
    [status |-> 200,
     body |-> [success |-> TRUE, data |-> "", message |-> MsgSuccess,
               timestamp |-> ts]]

\* Mutant: the success body also reports a per-request processing time.
SuccessResponseElapsed(data, ts) ==
    [status |-> 200,
     body |-> [success |-> TRUE, data |-> data, message |-> MsgSuccess,
               timestamp |-> ts, elapsed |-> ts]]

\* res.json(...) without res.status(...): Express sends 200.
SuccessResponse(data, ts) ==
    [status |-> 200,
     body |-> [success |-> TRUE, data |-> data, message |-> MsgSuccess,
               timestamp |-> ts]]

TimeoutResponse ==
    [status |-> 408,
     body |-> [error |-> "Request timeout", message |-> MsgTimeout,
               details |-> "OCR service took too long to respond"]]

\* details: error.response.data || error.message
UpstreamErrorResponse(error) ==
    [status |-> error.response.status,
     body |-> [error |-> "OCR API Error", message |-> MsgOcrApiError,
               details |-> IF Truthy(error.response.data)
                           THEN error.response.data ELSE error.message,
               status |-> error.response.status]]

NetworkErrorResponse ==
    [status |-> 503,
     body |-> [error |-> "Network Error", message |-> MsgNetwork,
               details |-> "Unable to connect to OCR service"]]

\* Mutant: the handler's 500 without the failure message.
InternalErrorResponseNoDetails(error) ==
    [status |-> 500,
     body |-> [error |-> "Internal Server Error", message |-> MsgInternal]]

InternalErrorResponse(error) ==
    [status |-> 500,
     body |-> [error |-> "Internal Server Error", message |-> MsgInternal,
               details |-> error.message]]

FileTooLargeResponse ==
    [status |-> 400,
     body |-> [error |-> "File too large", message |-> MsgTooLarge]]

CorsErrorResponse(err) ==
    [status |-> 403, body |-> [error |-> "CORS Error", message |-> err.message]]

UnexpectedErrorResponse ==
    [status |-> 500,
     body |-> [error |-> "Internal Server Error", message |-> MsgUnexpected]]

\* Mutant: the error.request branch is missing.
catchBlockNoRequestCheck(error) ==
    IF error.code = "ECONNABORTED" THEN <<TimeoutResponse>>
    ELSE IF error.response # NoResponse THEN <<UpstreamErrorResponse(error)>>
    ELSE <<InternalErrorResponse(error)>>

\* Mutant: the 408 and 503 branches do not return, so the code falls
\* through to the final res.status(500).
catchBlockFallThrough(error) ==
    IF error.code = "ECONNABORTED"
    THEN <<TimeoutResponse, NetworkErrorResponse, InternalErrorResponse(error)>>
    ELSE IF error.response # NoResponse THEN <<UpstreamErrorResponse(error)>>
    ELSE IF error.request THEN <<NetworkErrorResponse, InternalErrorResponse(error)>>
    ELSE <<InternalErrorResponse(error)>>

\* The catch block of the route handler: the responses it sends, in order.
\* Every branch returns, so exactly one response is sent.
catchBlock(error) ==
    IF error.code = "ECONNABORTED" THEN <<TimeoutResponse>>
    ELSE IF error.response # NoResponse THEN <<UpstreamErrorResponse(error)>>
    ELSE IF error.request THEN <<NetworkErrorResponse>>
    ELSE <<InternalErrorResponse(error)>>

\* err.message.startsWith('CORS policy'); no error of this model carries
\* such a message, the cors middleware being in its allow-all configuration.
IsCorsMessage(msg) == msg = "CORS policy: Origin not allowed"

\* Mutant: the fallback branch logs the error and sends nothing.
errorMiddlewareSilent(err) ==
    IF err.name = "MulterError" /\ err.code = "LIMIT_FILE_SIZE"
    THEN <<FileTooLargeResponse>>
    ELSE IF err.message # "" /\ IsCorsMessage(err.message)
    THEN <<CorsErrorResponse(err)>>
    ELSE <<>>

\* The error-handling middleware app.use((err, req, res, next) => ...).
errorMiddleware(err) ==
    IF err.name = "MulterError" /\ err.code = "LIMIT_FILE_SIZE"
    THEN <<FileTooLargeResponse>>
    ELSE IF err.message # "" /\ IsCorsMessage(err.message)
    THEN <<CorsErrorResponse(err)>>
    ELSE <<UnexpectedErrorResponse>>

\* upload.single('file'): the error passed to next(err), or the file put in
\* req.file.  multer checks the field name, then calls fileFilter when the
\* file part starts, and meets the size limit only while reading the data.
multerSingle(u) ==
    IF ~u.present THEN [err |-> NoError, file |-> NoFile]
    ELSE IF u.fieldname # "file"
    THEN [err |-> MulterError("LIMIT_UNEXPECTED_FILE"), file |-> NoFile]
    ELSE IF ~fileFilter(u)
    THEN [err |-> PlainError("Only image files are allowed"), file |-> NoFile]
    ELSE IF u.size > MAX_FILE_SIZE
    THEN [err |-> MulterError("LIMIT_FILE_SIZE"), file |-> NoFile]
    ELSE [err |-> NoError, file |-> u]

\* Mutant: the buffer is appended without its filename and content type.
OutboundCallNoMeta(file) ==
    [method |-> "POST", url |-> OCR_API_URL,
     parts |-> <<[name |-> "file", content |-> file.buffer,
                  filename |-> "", contentType |-> <<"application", "octet-stream">>]>>,
     accept |-> "application/json", timeout |-> OCR_TIMEOUT]

\* The outbound call axios.post(OCR_API_URL, formData, {...}).
OutboundCall(file) ==
    [method |-> "POST", url |-> OCR_API_URL,
     parts |-> <<[name |-> "file", content |-> file.buffer,
                  filename |-> file.originalname, contentType |-> file.mimetype]>>,
     accept |-> "application/json", timeout |-> OCR_TIMEOUT]

\* ----------------------------------------------------------------- state
VARIABLES
    pc,       \* per request: "idle", "intake", "handler", "pending", "done"
    upload,   \* per request: the multipart content the client sent
    reqFile,  \* per request: req.file as multer left it
    entered,  \* per request: the route handler body has been entered
    calls,    \* per request: the outbound calls issued, in order
    outcome,  \* per request: how the outbound call settled
    late,     \* per request: an upstream response arrived after the timeout
    sent      \* per request: the responses sent to the client, in order

vars == <<pc, upload, reqFile, entered, calls, outcome, late, sent>>

Init ==
    /\ pc = [r \in Reqs |-> "idle"]
    /\ upload = [r \in Reqs |-> NoFile]
    /\ reqFile = [r \in Reqs |-> NoFile]
    /\ entered = [r \in Reqs |-> FALSE]
    /\ calls = [r \in Reqs |-> <<>>]
    /\ outcome = [r \in Reqs |-> NoOutcome]
    /\ late = [r \in Reqs |-> FALSE]
    /\ sent = [r \in Reqs |-> <<>>]

\* A client sends POST /api/ocr.
Arrive(r) ==
    /\ pc[r] = "idle"
    /\ \E u \in Uploads : upload' = [upload EXCEPT ![r] = u]
    /\ pc' = [pc EXCEPT ![r] = "intake"]
    /\ UNCHANGED <<reqFile, entered, calls, outcome, late, sent>>

\* The multer middleware runs; on error the error middleware answers.
Intake(r) ==
    /\ pc[r] = "intake"
    /\ LET m == multerSingle(upload[r]) IN
        IF m.err # NoError
        THEN /\ sent' = [sent EXCEPT ![r] = @ \o errorMiddleware(m.err)]
             /\ pc' = [pc EXCEPT ![r] = "done"]
             /\ UNCHANGED reqFile
        ELSE /\ reqFile' = [reqFile EXCEPT ![r] = m.file]
             /\ pc' = [pc EXCEPT ![r] = "handler"]
             /\ UNCHANGED sent
    /\ UNCHANGED <<upload, entered, calls, outcome, late>>

\* Mutant: the catch block retries once after a timeout.
catchCallsRetryTimeout(error, file) ==
    IF error.code = "ECONNABORTED" THEN <<OutboundCall(file)>> ELSE <<>>

\* The outbound calls the catch block issues: it only answers, so none.
catchCalls(error, file) == <<>>

\* Mutant: the missing-file check never fires.
noFileNever(file) == FALSE

\* if (!req.file)
noFile(file) == ~file.present

\* The route handler up to its suspension at `await axios.post(...)`.
HandlerStart(r) ==
    /\ pc[r] = "handler"
    /\ entered' = [entered EXCEPT ![r] = TRUE]
    /\ IF noFile(reqFile[r])
       THEN /\ sent' = [sent EXCEPT ![r] = @ \o <<NoFileResponse>>]
            /\ pc' = [pc EXCEPT ![r] = "done"]
            /\ UNCHANGED <<calls, outcome>>
       ELSE \/ \* building the multipart body throws
               /\ \E o \in LocalOutcomes :
                    /\ outcome' = [outcome EXCEPT ![r] = o]
                    /\ sent' = [sent EXCEPT ![r] = @ \o catchBlock(PlainError(o.data))]
                    /\ calls' = [calls EXCEPT ![r] =
                                    @ \o catchCalls(PlainError(o.data), reqFile[r])]
               /\ pc' = [pc EXCEPT ![r] = "done"]
            \/ \* the call is issued and the handler suspends
               /\ calls' = [calls EXCEPT ![r] = Append(@, OutboundCall(reqFile[r]))]
               /\ pc' = [pc EXCEPT ![r] = "pending"]
               /\ UNCHANGED <<outcome, sent>>
    /\ UNCHANGED <<upload, reqFile, late>>

\* Mutant: the continuation also runs for an event that arrives after the
\* call has settled.
AwaitingOrSettled(r) == pc[r] \in {"pending", "done"}

\* The handler is suspended on its one await.
Awaiting(r) == pc[r] = "pending"

\* Mutant: the result of a call is kept in state shared by all handler
\* runs, so every request that is awaiting is answered with it.
DeliverShared(r, o) ==
    IF Awaiting(r)
    THEN /\ pc' = [q \in Reqs |-> IF pc[q] = "pending" THEN "done" ELSE pc[q]]
         /\ \E ts \in Timestamps :
              sent' = [q \in Reqs |->
                         IF pc[q] # "pending" THEN sent[q]
                         ELSE IF o.kind = "response" /\ validateStatus(o.status)
                         THEN sent[q] \o <<SuccessResponse(o.data, ts)>>
                         ELSE sent[q] \o catchBlock(AxiosError(o))]
         /\ UNCHANGED calls
    ELSE UNCHANGED <<pc, sent, calls>>

\* The transport reports outcome o for the call of request r.  The promise
\* settles once: the handler resumes only if it is still awaiting, and an
\* event that comes later is dropped.
Deliver(r, o) ==
    IF Awaiting(r)
    THEN /\ pc' = [pc EXCEPT ![r] = "done"]
         /\ IF o.kind = "response" /\ validateStatus(o.status)
            THEN /\ \E ts \in Timestamps :
                      sent' = [sent EXCEPT ![r] = @ \o <<SuccessResponse(o.data, ts)>>]
                 /\ UNCHANGED calls
            ELSE /\ sent' = [sent EXCEPT ![r] = @ \o catchBlock(AxiosError(o))]
                 /\ calls' = [calls EXCEPT ![r] =
                                 @ \o catchCalls(AxiosError(o), reqFile[r])]
    ELSE UNCHANGED <<pc, sent, calls>>

\* What the transport did is recorded as it happens: the first event is the
\* outcome of the call, a later one is marked late.
Record(r, o) ==
    IF outcome[r] = NoOutcome
    THEN /\ outcome' = [outcome EXCEPT ![r] = o]
         /\ UNCHANGED late
    ELSE /\ late' = [late EXCEPT ![r] = TRUE]
         /\ UNCHANGED outcome

\* The upstream answers: in time, or after the timeout has already fired.
UpstreamResponds(r) ==
    /\ calls[r] # <<>>
    /\ \/ outcome[r] = NoOutcome
       \/ outcome[r].kind = "timeout" /\ ~late[r]
    /\ \E o \in ResponseOutcomes : Record(r, o) /\ Deliver(r, o)
    /\ UNCHANGED <<upload, reqFile, entered>>

\* The configured timeout elapses with no response.
TimerFires(r) ==
    /\ calls[r] # <<>>
    /\ outcome[r] = NoOutcome
    /\ Record(r, TimeoutOutcome) /\ Deliver(r, TimeoutOutcome)
    /\ UNCHANGED <<upload, reqFile, entered>>

\* The connection fails: DNS, refused connection, or an aborted socket.
ConnectionFails(r) ==
    /\ calls[r] # <<>>
    /\ outcome[r] = NoOutcome
    /\ \E o \in NetOutcomes \cup {AbortOutcome} : Record(r, o) /\ Deliver(r, o)
    /\ UNCHANGED <<upload, reqFile, entered>>

Next ==
    \E r \in Reqs :
        \/ Arrive(r)
        \/ Intake(r)
        \/ HandlerStart(r)
        \/ UpstreamResponds(r)
        \/ TimerFires(r)
        \/ ConnectionFails(r)

Spec == Init /\ [][Next]_vars

\* The middleware chain runs to the handler's await, and the timeout timer
\* set by axios fires if nothing else settles the call.
LiveSpec ==
    /\ Spec
    /\ \A r \in Reqs : WF_vars(Intake(r))
    /\ \A r \in Reqs : WF_vars(HandlerStart(r))
    /\ \A r \in Reqs : WF_vars(TimerFires(r))

TypeOK ==
    /\ pc \in [Reqs -> {"idle", "intake", "handler", "pending", "done"}]
    /\ upload \in [Reqs -> Uploads]
    /\ reqFile \in [Reqs -> Uploads]
    /\ entered \in [Reqs -> BOOLEAN]
    /\ late \in [Reqs -> BOOLEAN]
    /\ \A r \in Reqs : outcome[r] \in Outcomes \cup LocalOutcomes \cup {NoOutcome}

\* ================================================================ claims

\* C1: when the outbound call of a request completed with an upstream
\* success status (2xx), the one response of the request is HTTP 200 with
\* success = true and data equal to the upstream body of that call.
C1_SuccessRelaysBodyVerbatim ==
    \A r \in Reqs :
        (outcome[r].kind = "response" /\ outcome[r].status \in 200..299) =>
            /\ Len(sent[r]) = 1
            /\ sent[r][1].status = 200
            /\ sent[r][1].body.success = TRUE
            /\ sent[r][1].body.data = outcome[r].data

C1_Witness ==
    \E r \in Reqs :
        /\ outcome[r].kind = "response" /\ outcome[r].status = 201
        /\ outcome[r].data = "obj:{amount:100}"
        /\ Len(sent[r]) = 1 /\ sent[r][1].body.data = "obj:{amount:100}"

\* C2 (as claimed): when the upstream answered with a non-success status S
\* and body B, the response has HTTP status S, error "OCR API Error",
\* status field S and details B; details is the error message only when the
\* body is absent (the empty body "").
C2_UpstreamErrorRelaysBody ==
    \A r \in Reqs :
        (outcome[r].kind = "response" /\ outcome[r].status \notin 200..299) =>
            /\ Len(sent[r]) = 1
            /\ sent[r][1].status = outcome[r].status
            /\ sent[r][1].body.error = "OCR API Error"
            /\ sent[r][1].body.status = outcome[r].status
            /\ sent[r][1].body.details =
                  IF outcome[r].data = "" THEN StatusMessage(outcome[r].status)
                  ELSE outcome[r].data

\* C3: when the timeout elapsed with no response, the response is the 408
\* "Request timeout", and it stays the only response when the upstream
\* answers afterwards.
C3_TimeoutDiscardsLateResponse ==
    \A r \in Reqs :
        outcome[r].kind = "timeout" =>
            /\ Len(sent[r]) = 1
            /\ sent[r][1].status = 408
            /\ sent[r][1].body.error = "Request timeout"

C3_Witness ==
    \E r \in Reqs :
        /\ outcome[r].kind = "timeout" /\ late[r]
        /\ sent[r] = <<TimeoutResponse>>

C5_NoFileIs400WithoutCall ==
    \A r \in Reqs :
        (pc[r] # "idle" /\ ~upload[r].present) =>
            /\ calls[r] = <<>>
            /\ pc[r] # "pending"
            /\ pc[r] = "done" =>
                  /\ Len(sent[r]) = 1
                  /\ sent[r][1].status = 400
                  /\ sent[r][1].body.error = "No file uploaded"

C5_Witness ==
    \E r \in Reqs :
        /\ pc[r] = "done" /\ ~upload[r].present /\ entered[r]
        /\ calls[r] = <<>> /\ sent[r] = <<NoFileResponse>>

\* C6 (as claimed): a request carrying a file larger than MAX_FILE_SIZE,
\* once answered, has the single response HTTP 400, and no outbound call is
\* ever issued for it.
C6_OversizeIs400WithoutCall ==
    \A r \in Reqs :
        (upload[r].present /\ upload[r].size > MAX_FILE_SIZE) =>
            /\ calls[r] = <<>>
            /\ pc[r] = "done" => (Len(sent[r]) = 1 /\ sent[r][1].status = 400)

\* C7: a request whose file has a MIME type outside image/* is rejected by
\* the intake: the route handler body is never entered, no outbound call is
\* issued, and the one response it gets is an error response.
C7_NonImageRejectedAtIntake ==
    \A r \in Reqs :
        (upload[r].present /\ upload[r].mimetype[1] # "image") =>
            /\ ~entered[r]
            /\ calls[r] = <<>>
            /\ pc[r] \in {"intake", "done"}
            /\ pc[r] = "done" => (Len(sent[r]) = 1 /\ sent[r][1].status >= 400)

C7_Witness ==
    \E r \in Reqs :
        /\ upload[r].present /\ upload[r].fieldname = "file"
        /\ upload[r].mimetype = <<"text", "plain">>
        /\ pc[r] = "done" /\ ~entered[r] /\ calls[r] = <<>>
        /\ Len(sent[r]) = 1

C9_AtMostOneResponse ==
    /\ [](\A r \in Reqs : Len(sent[r]) <= 1)
    /\ [](\A r \in Reqs : (pc[r] = "done") <=> (Len(sent[r]) = 1))
    /\ [][\A r \in Reqs : (sent[r] # <<>>) => (sent'[r] = sent[r])]_vars

C9_Witness ==
    \E r \in Reqs :
        /\ late[r] /\ outcome[r].kind = "timeout" /\ Len(sent[r]) = 1
        /\ \E q \in Reqs \ {r} : outcome[q].kind = "abort" /\ Len(sent[q]) = 1

\* C10: under LiveSpec, every request that has arrived eventually has a
\* response with a status code and a JSON body carrying a message.
C10_EveryRequestAnswered ==
    \A r \in Reqs :
        (pc[r] = "intake") ~>
            (/\ Len(sent[r]) >= 1
             /\ sent[r][1].status \in 200..599
             /\ "message" \in DOMAIN sent[r][1].body)

C10_Witness ==
    \E r \in Reqs :
        /\ ~entered[r] /\ upload[r].mimetype = <<"text", "plain">>
        /\ Len(sent[r]) = 1 /\ sent[r][1].status = 500
        /\ \E q \in Reqs \ {r} :
              /\ outcome[q].kind = "local" /\ Len(sent[q]) = 1

\* C11: no retries.  At most one outbound call is ever issued for a request,
\* and once it has been issued no further call follows, whatever the
\* outcome: a request that is answered after a failure still has one call.
C11_NoRetries ==
    /\ [](\A r \in Reqs : Len(calls[r]) <= 1)
    /\ [][\A r \in Reqs : (calls[r] # <<>>) => (calls'[r] = calls[r])]_vars

C11_Witness ==
    \E r \in Reqs :
        /\ outcome[r].kind = "timeout" /\ pc[r] = "done" /\ Len(calls[r]) = 1
        /\ \E q \in Reqs \ {r} :
              /\ outcome[q].kind = "neterr" /\ pc[q] = "done" /\ Len(calls[q]) = 1

\* C12: concurrent requests are independent.  Every payload, status and
\* error in a request's response comes from that request's own outbound
\* call (a request that made no call carries none), and every step changes
\* the state of one request only, whatever the other requests are doing.
C12_RequestsIndependent ==
    /\ [](\A r \in Reqs : \A i \in 1..Len(sent[r]) :
            LET b == sent[r][i].body IN
            /\ ("data" \in DOMAIN b) =>
                   (outcome[r].kind = "response" /\ b.data = outcome[r].data)
            /\ ("status" \in DOMAIN b) =>
                   (/\ outcome[r].kind = "response"
                    /\ b.status = outcome[r].status
                    /\ sent[r][i].status = outcome[r].status
                    /\ b.details \in {outcome[r].data, StatusMessage(outcome[r].status)})
            /\ (b.message \in {MsgTimeout, MsgNetwork}) =>
                   (outcome[r].kind \in {"timeout", "abort", "neterr"})
            /\ (b.message = MsgInternal) =>
                   (outcome[r].kind = "local" /\ b.details = outcome[r].data)
            /\ (outcome[r] = NoOutcome) =>
                   (b.message \in {MsgNoFile, MsgTooLarge, MsgUnexpected}))
    /\ [][\A r \in Reqs : \A q \in Reqs \ {r} :
            LET st(x) == <<pc[x], upload[x], reqFile[x], entered[x], calls[x],
                           outcome[x], late[x], sent[x]>> IN
            (st(r)' # st(r)) => (st(q)' = st(q))]_vars

C12_Witness ==
    \E r \in Reqs : \E q \in Reqs \ {r} :
        /\ pc[q] = "pending" /\ upload[q] # upload[r]
        /\ outcome[r].kind = "response" /\ outcome[r].status = 200
        /\ sent[r] # <<>> /\ sent[r][1].body.data = "obj:{amount:100}"
        /\ sent[q] = <<>>

\* C13: two answered requests with the same upload and the same outcome of
\* their outbound calls have the same HTTP status and the same JSON body,
\* the timestamp field left aside.
C13_SameInputSameResponse ==
    \A r \in Reqs : \A q \in Reqs :
        (/\ pc[r] = "done" /\ pc[q] = "done"
         /\ upload[r] = upload[q] /\ outcome[r] = outcome[q]) =>
            /\ Len(sent[r]) = Len(sent[q])
            /\ \A i \in 1..Len(sent[r]) :
                  LET strip(b) == [k \in DOMAIN b \ {"timestamp"} |-> b[k]] IN
                  /\ sent[r][i].status = sent[q][i].status
                  /\ strip(sent[r][i].body) = strip(sent[q][i].body)

C13_Witness ==
    \E r \in Reqs : \E q \in Reqs \ {r} :
        /\ pc[r] = "done" /\ pc[q] = "done"
        /\ upload[r].present /\ upload[r] = upload[q]
        /\ outcome[r].kind = "response" /\ outcome[r].status = 200
        /\ outcome[r] = outcome[q]
        /\ sent[r] # <<>> /\ sent[q] # <<>>
        /\ sent[r][1].body.timestamp # sent[q][1].body.timestamp
        /\ sent[r][1].body.data = sent[q][1].body.data

\* C14: every outbound call issued for a request is a POST to the configured
\* destination URL whose multipart body has exactly one part, named "file",
\* holding the bytes, the original filename and the declared MIME type of
\* the file the client uploaded; the upload does not change once received.
C14_CallCarriesUploadUnchanged ==
    /\ [](\A r \in Reqs : \A i \in 1..Len(calls[r]) :
            LET c == calls[r][i] IN
            /\ c.method = "POST"
            /\ c.url = "https://ocr-slip.onrender.com/parse-slip-image"
            /\ c.accept = "application/json"
            /\ Len(c.parts) = 1
            /\ c.parts[1].name = "file"
            /\ upload[r].present
            /\ c.parts[1].content = upload[r].buffer
            /\ c.parts[1].filename = upload[r].originalname
            /\ c.parts[1].contentType = upload[r].mimetype)
    /\ [][\A r \in Reqs : (pc[r] # "idle") => (upload'[r] = upload[r])]_vars

C14_Witness ==
    \E r \in Reqs :
        /\ upload[r] = File("file", "bill.jpg", <<"image", "jpeg">>, 2, "bytes-B")
        /\ Len(calls[r]) = 1
        /\ calls[r][1].parts[1].content = "bytes-B"
        /\ calls[r][1].parts[1].filename = "bill.jpg"
        /\ calls[r][1].parts[1].contentType = <<"image", "jpeg">>

\* C15 (as claimed): a response is HTTP 408 or says "Request timeout" only
\* if the configured timeout elapsed on that request's call with no upstream
\* response; no other failure is reported as a timeout.
C15_TimeoutOnlyWhenTimedOut ==
    \A r \in Reqs : \A i \in 1..Len(sent[r]) :
        (sent[r][i].status = 408 \/ sent[r][i].body.message = MsgTimeout) =>
            outcome[r].kind = "timeout"

\* C16: a response has a 2xx status exactly when the request's own outbound
\* call completed with an upstream 2xx status, and exactly then its body
\* has success = true; every other outcome is answered with a non-2xx
\* status and a body without a success field.
C16_SuccessStatusIffUpstreamSuccess ==
    \A r \in Reqs : \A i \in 1..Len(sent[r]) :
        LET ok == outcome[r].kind = "response" /\ outcome[r].status \in 200..299 IN
        /\ (sent[r][i].status \in 200..299) <=> ok
        /\ ("success" \in DOMAIN sent[r][i].body) <=> ok
        /\ ok => (sent[r][i].body.success = TRUE /\ calls[r] # <<>>)
        /\ (~ok) => (sent[r][i].status \in 400..599)

C16_Witness ==
    \E r \in Reqs : \E q \in Reqs \ {r} :
        /\ outcome[r].kind = "response" /\ outcome[r].status = 201
        /\ sent[r] # <<>> /\ sent[r][1].status = 200
        /\ sent[r][1].body.success = TRUE
        /\ outcome[q].kind = "response" /\ outcome[q].status = 422
        /\ sent[q] # <<>> /\ sent[q][1].status = 422
        /\ "success" \notin DOMAIN sent[q][1].body

====
